---- MODULE Spec2Model ----
(***************************************************************************)
(* tap-pardot: the incremental replication engine of src/tap_pardot.       *)
(*                                                                         *)
(* One process invocation extracts one entity (a Stream subclass) through  *)
(* the generator chain sync.sync -> Stream.sync -> sync_page ->            *)
(* get_records.  The bookmark store is the dict `state`; every             *)
(* singer.write_state(state) makes a copy of it durable (`persisted`).     *)
(* A process may be killed between any two steps and started again from    *)
(* the durable copy (Restart).                                             *)
(*                                                                         *)
(* Timestamps are fixed-width "%Y-%m-%d %H:%M:%S" strings in the code;     *)
(* they are compared as strings, which orders them as the instants they    *)
(* denote, so they are modelled as integers (ticks).  A tick is one second *)
(* where the code subtracts a second, one day where it adds seven days.    *)
(***************************************************************************)
EXTENDS Integers, Sequences, FiniteSets, TLC

\* Python's None (an absent bookmark key, an unset attribute).
None == -1

\* ---------------------------------------------------------------- bounds
\* Records one upstream response holds at most (the API's page of 200).
PageSize == 2
\* Records the upstream account holds for the entity under extraction.
NumRecords == 3
\* Greatest timestamp an upstream record carries.
MaxTs == 3
\* config["start_date"].
StartDate == 1
\* Process invocations in one behaviour (the first run and its re-runs).
MaxRuns == 3
\* Of these, the processes that are ended before they exit by themselves.
MaxKills == 1
\* Upstream responses that ignore the request's filter, and failed requests.
MaxFaults == 1

\* Tries the backoff wrapper of Client._make_request allows (max_tries).
MaxTries == 2
\* Non-empty pages the account holds for one entity in a run of the driver.
MaxPasses == 1
\* The greatest request limit Client._set_limit derives besides the default.
MaxLimit == 4

\* Responses that ignore the request's filter in a run of visitor_activities
\* taken alone.
MaxWindowFaults == 2

\* ------------------------------------------------------- program constants
WINDOW_DAYS == 7
ONE_SECOND == 1
\* client.py: the class default of Client.request_limit.
REQUEST_LIMIT == 20000

STREAM_OBJECTS ==
    << "prospect_accounts", "prospects", "campaigns", "visitor_activities",
       "visits", "email_clicks", "opportunities", "users", "visitors",
       "lists", "list_memberships" >>

StreamNames == { STREAM_OBJECTS[i] : i \in 1..Len(STREAM_OBJECTS) }

BookmarkKeys ==
    { "id", "created_at", "updated_at", "last_updated", "sync_start_time",
      "offset", "parent_bookmark" }

\* The class whose sync / sync_page / get_params the entity runs.
StreamClass(s) ==
    CASE s = "email_clicks" -> "IdReplicationStream"
      [] s \in {"prospect_accounts", "lists"} -> "UpdatedAtReplicationStream"
      [] s = "visitors" -> "Visitors"
      [] s = "prospects" -> "Prospects"
      [] s = "visitor_activities" -> "VisitorActivities"
      [] s \in {"opportunities", "users"} -> "NoUpdatedAtSortingStream"
      [] s = "campaigns" -> "UpdatedAtSortByIdReplicationStream"
      [] s = "visits" -> "Visits"
      [] s = "list_memberships" -> "ListMemberships"

\* replication_keys[0]: the key get_records sorts a page by.
ReplicationKey(s) ==
    CASE StreamClass(s) = "VisitorActivities" -> "created_at"
      [] StreamClass(s) \in {"UpdatedAtReplicationStream", "Visitors", "Prospects"}
            -> "updated_at"
      [] OTHER -> "id"

\* rec[self.replication_keys[0]]
RecKey(s, rec) == IF ReplicationKey(s) = "id" THEN rec.id ELSE rec.ts

NoRec == [id |-> None, ts |-> None]
NoParams ==
    [id_greater_than |-> None, after |-> None, before |-> None,
     offset |-> None, sort_by |-> "none"]

Max(a, b) == IF a >= b THEN a ELSE b

\* ----------------------------------------------------- singer.bookmarks
\* A state file that holds no bookmark for the entities in names.
EmptyState(names) == [s \in names |-> [k \in BookmarkKeys |-> None]]

write_bookmark(st, s, k, v) == [st EXCEPT ![s][k] = v]

clear_bookmark(st, s, k) == [st EXCEPT ![s][k] = None]

\* Python's `x or default`: None, 0 and {} are falsy; a timestamp string never is.
Falsy(k, v) ==
    \/ v = None
    \/ k \in {"id", "offset", "parent_bookmark"} /\ v = 0

\* ------------------------------------------------------------- bookmarks
Stream_get_default_start(s) ==
    IF StreamClass(s) = "IdReplicationStream" THEN 0 ELSE StartDate

Stream_get_bookmark(st, s) ==
    IF Falsy(ReplicationKey(s), st[s][ReplicationKey(s)])
    THEN Stream_get_default_start(s)
    ELSE st[s][ReplicationKey(s)]

ComplexBookmarkStream_get_default_start(k) ==
    CASE k \in {"updated_at", "last_updated"} -> StartDate
      [] k \in {"id", "offset"} -> 0
      [] OTHER -> None

ComplexBookmarkStream_get_bookmark(st, s, k) ==
    IF Falsy(k, st[s][k])
    THEN ComplexBookmarkStream_get_default_start(k)
    ELSE st[s][k]

\* ------------------------------------------------------------ get_params
Stream_get_params(st, s) ==
    CASE StreamClass(s) = "IdReplicationStream" ->
            [NoParams EXCEPT !.id_greater_than = Stream_get_bookmark(st, s),
                             !.sort_by = "id"]
      [] StreamClass(s) \in {"UpdatedAtReplicationStream", "Visitors", "Prospects"} ->
            [NoParams EXCEPT !.after = Stream_get_bookmark(st, s),
                             !.sort_by = "ts"]
      [] StreamClass(s) = "VisitorActivities" ->
            [NoParams EXCEPT !.after = Stream_get_bookmark(st, s),
                             !.before = Stream_get_bookmark(st, s) + WINDOW_DAYS,
                             !.sort_by = "ts"]
      [] StreamClass(s) = "NoUpdatedAtSortingStream" ->
            \* created_after = start_date: every record of the account was
            \* created after the configured start date.
            [NoParams EXCEPT
                !.id_greater_than = ComplexBookmarkStream_get_bookmark(st, s, "id"),
                !.sort_by = "id"]
      [] StreamClass(s) = "UpdatedAtSortByIdReplicationStream" ->
            [NoParams EXCEPT
                !.id_greater_than = ComplexBookmarkStream_get_bookmark(st, s, "id"),
                !.after = ComplexBookmarkStream_get_bookmark(st, s, "last_updated"),
                !.sort_by = "id"]

\* -------------------------------------------------------------- upstream
\* The records of the account that satisfy a request's filters (the API's
\* "greater than", "after" and "before" filters are exclusive).
Matches(rec, p) ==
    /\ p.id_greater_than = None \/ rec.id > p.id_greater_than
    /\ p.after = None \/ rec.ts > p.after
    /\ p.before = None \/ rec.ts < p.before

SortKey(rec, by) == IF by = "id" THEN rec.id ELSE rec.ts

\* The least record of a non-empty set in the API's result order: ascending
\* by the sort field, records with equal values by id.
Least(S, by) ==
    CHOOSE r \in S : \A q \in S :
        \/ SortKey(r, by) < SortKey(q, by)
        \/ SortKey(r, by) = SortKey(q, by) /\ r.id <= q.id

RECURSIVE Ordered(_, _)
Ordered(S, by) ==
    IF S = {} THEN << >>
    ELSE LET r == Least(S, by) IN << r >> \o Ordered(S \ {r}, by)

Drop(seq, k) == IF k >= Len(seq) THEN << >> ELSE SubSeq(seq, k + 1, Len(seq))
Take(seq, k) == IF k >= Len(seq) THEN seq ELSE SubSeq(seq, 1, k)

\* The response of an upstream that honours the request.
HonestPage(data, p) ==
    LET all == Ordered({ r \in data : Matches(r, p) }, p.sort_by)
        off == IF p.offset = None THEN 0 ELSE p.offset
    IN  Take(Drop(all, off), PageSize)

\* Any response: up to PageSize records of the account, in any order.
Pages(data) == UNION { [1..k -> data] : k \in 0..PageSize }

\* sorted(records, key=lambda x: x[self.replication_keys[0]]): a stable sort.
RECURSIVE Insert(_, _, _)
Insert(sorted, rec, s) ==
    IF sorted = << >> THEN << rec >>
    ELSE IF RecKey(s, rec) < RecKey(s, Head(sorted))
         THEN << rec >> \o sorted
         ELSE << Head(sorted) >> \o Insert(Tail(sorted), rec, s)

RECURSIVE Sorted(_, _)
Sorted(records, s) ==
    IF records = << >> THEN << >>
    ELSE Insert(Sorted(SubSeq(records, 1, Len(records) - 1), s),
                records[Len(records)], s)

\* ------------------------------------------------- variants of check_order
\* A check_order that also rejects a value equal to the last one.
check_order_rejects_ties(last, v) ==
    IF last # None /\ v <= last
    THEN [raise |-> TRUE, last |-> last]
    ELSE [raise |-> FALSE, last |-> v]

\* A check_order that records the rejected value as the last one.
check_order_records_rejected(last, v) ==
    LET first == IF last = None THEN v ELSE last
    IN  [raise |-> v < first, last |-> v]

\* A check_order that never moves on from the first value it saw.
check_order_keeps_first(last, v) ==
    LET first == IF last = None THEN v ELSE last
    IN  IF v < first
        THEN [raise |-> TRUE, last |-> first]
        ELSE [raise |-> FALSE, last |-> first]

\* ----------------------------------------------------------- check_order
\* Stream.check_order: the outcome for candidate v when the last value is last.
check_order(last, v) ==
    LET first == IF last = None THEN v ELSE last
    IN  IF v < first
        THEN [raise |-> TRUE, last |-> first]
        ELSE [raise |-> FALSE, last |-> v]

\* ------------------------------------------------------------------ state
VARIABLES
    stream,               \* the entity the process is extracting
    upstream,             \* the records the account holds for it
    now,                  \* the wall clock of the current process
    pc,                   \* where the generator chain of the run stands
    state,                \* the bookmark store (the dict passed to the streams)
    persisted,            \* the state last written by singer.write_state
    page,                 \* records of the fetched page not yet iterated
    pending,              \* the record yielded to sync.sync, not yet written
    last_bookmark_value,  \* Stream._last_bookmark_value
    records_synced,       \* Stream.sync
    last_records_synced,  \* Stream.sync
    n,                    \* VisitorActivities.sync
    params,               \* the parameters of the last request
    bookmark,             \* Prospects.sync_page's local bookmark
    max_updated_at,       \* NoUpdatedAtSortingStream.max_updated_at
    last_updated_at,      \* NoUpdatedAtSortingStream.last_updated_at
    start_time,           \* UpdatedAtSortByIdReplicationStream.start_time
    exit_code,            \* the process's exit status, None while it runs
    raised,               \* the exception that ended the run, "none" if none
    output,               \* the records sync.sync wrote in this run, in order
    delivered,            \* the records written in any run
    runs,                 \* process invocations so far
    faults,               \* upstream faults so far
    honest,               \* every response so far honoured its request
    b_first,              \* the primary bookmark before the first run
    state0,               \* the state this run started from
    prev_pc,              \* where the previous process stood when it ended
    kills,                \* processes so far that were ended before their exit
    returned,             \* the records upstream returned in this run
    scanned,              \* records the watermark filter has judged in this run
    prev_last,            \* the last value of the previous page of this run
    regress,              \* a page of this run held a value below prev_last
    requested,            \* the lower window bounds of this run's requests
    parents,              \* the records the account holds for the parent entity
    parent_page,          \* records of the parent's page not yet iterated
    parent_ids,           \* the batch of parent ids the child is paginating
    parent_last_bookmark_value,  \* the parent object's _last_bookmark_value
    parent_records_synced,       \* ListMemberships.get_parent_ids
    parent_last_records_synced,  \* ListMemberships.get_parent_ids
    main_pc,              \* where main() stands: Client(), sync_properties, sync
    stream_idx,           \* the position of sync's loop in STREAM_OBJECTS
    num_requests,         \* Client.num_requests
    request_limit,        \* Client.request_limit
    api_version,          \* Client.api_version
    access_token,         \* Client.access_token
    tries,                \* failed tries of the current _make_request call
    url_version,          \* the version in _fetch's base_formatting
    passes,               \* the non-empty pages of the current entity's run
    last_sent,            \* the last request sent upstream
    started,              \* the entities constructed so far, in order
    finished,             \* the entities whose post_sync has returned
    last_writer,          \* the entity that wrote the bookmark store last
    main_exit,            \* the exit status of main(), None while it runs
    main_raised           \* the exception that ended main(), "none" if none

vars ==
    << stream, upstream, now, pc, state, persisted, page, pending,
       last_bookmark_value, records_synced, last_records_synced, n, params,
       bookmark, max_updated_at, last_updated_at, start_time, exit_code,
       raised, output, delivered, runs, faults, honest, b_first, state0, prev_pc,
       kills, returned, scanned,
       prev_last, regress, requested, parents, parent_page, parent_ids,
       parent_last_bookmark_value, parent_records_synced,
       parent_last_records_synced, main_pc, stream_idx, num_requests,
       request_limit, api_version, access_token, tries, url_version, passes,
       last_sent, started, finished, last_writer, main_exit, main_raised >>

\* The process as a whole: main(), the client and the loop of sync.sync.
main_vars ==
    << main_pc, stream_idx, num_requests, request_limit, api_version,
       access_token, tries, url_version, passes, last_sent, started, finished,
       last_writer, main_exit, main_raised >>

\* What a step inside one run leaves alone.
run_env ==
    << stream, upstream, parents, now, runs, b_first, state0, prev_pc, kills,
       main_vars >>

\* The attributes of the parent object a child run instantiates.
parent_vars ==
    << parent_page, parent_ids, parent_last_bookmark_value,
       parent_records_synced, parent_last_records_synced >>

\* What a step of an entity that is no child leaves alone.
env == << run_env, parent_vars >>

MainStreams ==
    { "prospect_accounts", "prospects", "campaigns", "visitor_activities",
      "email_clicks", "opportunities", "users", "visitors", "lists" }

\* The loop of Stream.sync drives these; the others override sync.
StreamSyncClasses ==
    { "IdReplicationStream", "UpdatedAtReplicationStream", "Visitors",
      "NoUpdatedAtSortingStream", "UpdatedAtSortByIdReplicationStream" }

\* The bookmark key that survives a completed run.
DurableKey(s) ==
    CASE StreamClass(s) \in {"NoUpdatedAtSortingStream", "Visits", "ListMemberships"}
            -> "updated_at"
      [] StreamClass(s) = "UpdatedAtSortByIdReplicationStream" -> "last_updated"
      [] OTHER -> ReplicationKey(s)

Datasets ==
    { { [id |-> i, ts |-> f[i]] : i \in 1..NumRecords } :
        f \in [1..NumRecords -> 1..MaxTs] }

InitialBookmarks == { None, StartDate + 1 }

Nows(s) ==
    IF StreamClass(s) = "VisitorActivities"
    THEN { MaxTs + 1, MaxTs + WINDOW_DAYS }
    ELSE { MaxTs + 1 }

\* A stream object whose max_updated_at starts unset, not at the bookmark.
InitWatermark_unset(st, s) == None

\* NoUpdatedAtSortingStream.__init__ reads the watermark when the stream
\* object is created; the other classes read nothing.
InitWatermark(st, s) ==
    IF StreamClass(s) \in {"NoUpdatedAtSortingStream", "Visits", "ListMemberships"}
    THEN ComplexBookmarkStream_get_bookmark(st, s, "updated_at")
    ELSE None

\* main() before Client(**args.config): the class attributes of Client, and
\* no entity touched yet.
InitClient ==
    /\ main_pc = "Client"
    /\ stream_idx = 0
    /\ num_requests = 0
    /\ request_limit = REQUEST_LIMIT
    /\ api_version = 4
    /\ access_token = None
    /\ tries = 0
    /\ url_version = None
    /\ passes = 0
    /\ last_sent = [version |-> None, repeat |-> FALSE]
    /\ started = << >>
    /\ finished = {}
    /\ last_writer = "none"
    /\ main_exit = None
    /\ main_raised = "none"

InitMain ==
    /\ InitClient
    /\ stream \in MainStreams
    /\ upstream \in Datasets
    /\ now \in Nows(stream)
    /\ \E b \in InitialBookmarks :
          state = write_bookmark(EmptyState({stream}), stream,
                                 DurableKey(stream), b)
    /\ persisted = state
    /\ pc = "pre_sync"
    /\ page = << >>
    /\ pending = NoRec
    /\ last_bookmark_value = None
    /\ records_synced = 0
    /\ last_records_synced = -1
    /\ n = 0
    /\ params = NoParams
    /\ bookmark = None
    /\ max_updated_at = InitWatermark(state, stream)
    /\ last_updated_at = InitWatermark(state, stream)
    /\ start_time = None
    /\ exit_code = None
    /\ raised = "none"
    /\ output = << >>
    /\ delivered = {}
    /\ runs = 1
    /\ faults = 0
    /\ honest = TRUE
    /\ b_first = Stream_get_bookmark(state, stream)
    /\ state0 = state
    /\ prev_pc = "none"
    /\ kills = 0
    /\ returned = {}
    /\ scanned = {}
    /\ prev_last = None
    /\ regress = FALSE
    /\ requested = {}
    /\ parents = {}
    /\ parent_page = << >>
    /\ parent_ids = << >>
    /\ parent_last_bookmark_value = None
    /\ parent_records_synced = 0
    /\ parent_last_records_synced = -1

\* ------------------------------------------------------- pre_sync / post_sync
\* Stream.post_sync and its overrides: the state the hook leaves (and writes).
post_sync(st, s) ==
    CASE StreamClass(s) = "NoUpdatedAtSortingStream" ->
            write_bookmark(clear_bookmark(st, s, "id"), s, "updated_at",
                           max_updated_at)
      [] StreamClass(s) = "UpdatedAtSortByIdReplicationStream" ->
            write_bookmark(
                clear_bookmark(clear_bookmark(st, s, "sync_start_time"), s, "id"),
                s, "last_updated", start_time)
      [] StreamClass(s) \in {"Visits", "ListMemberships"} ->
            \* ChildStream.post_sync, then NoUpdatedAtSortingStream.post_sync
            write_bookmark(
                clear_bookmark(clear_bookmark(st, s, "parent_bookmark"), s, "id"),
                s, "updated_at", max_updated_at)
      [] OTHER -> st

\* The `except Exception` arm of the sync methods: post_sync, then sys.exit(1).
ExitOnException(kind) ==
    /\ state' = post_sync(state, stream)
    /\ persisted' = state'
    /\ exit_code' = 1
    /\ raised' = kind
    /\ pc' = "exited"

\* The `except InvalidCredentials` arm: sys.exit(5), no hook.
ExitOnInvalidCredentials ==
    /\ exit_code' = 5
    /\ raised' = "InvalidCredentials"
    /\ pc' = "exited"
    /\ UNCHANGED << state, persisted >>

\* A pre_sync that takes the current time whatever is stored.
SnapshotTime_always_now(stored, t) == t

\* UpdatedAtSortByIdReplicationStream.pre_sync: self.start_time is the stored
\* sync_start_time, or the current time t when none is stored.
SnapshotTime(stored, t) == IF stored = None THEN t ELSE stored

\* sync() up to its loop: pre_sync.
pre_sync ==
    /\ pc = "pre_sync"
    /\ stream \in MainStreams
    /\ IF StreamClass(stream) = "UpdatedAtSortByIdReplicationStream"
       THEN LET stored == ComplexBookmarkStream_get_bookmark(state, stream,
                                                            "sync_start_time")
            IN  /\ start_time' = SnapshotTime(stored, now)
                /\ IF stored = None
                   THEN /\ state' = write_bookmark(state, stream, "sync_start_time",
                                                  SnapshotTime(stored, now))
                        /\ persisted' = state'
                   ELSE UNCHANGED << state, persisted >>
       ELSE UNCHANGED << start_time, state, persisted >>
    /\ pc' = "loop"
    /\ UNCHANGED << env, page, pending, last_bookmark_value, records_synced,
                    last_records_synced, n, params, bookmark, max_updated_at,
                    last_updated_at, exit_code, raised, output, delivered,
                    faults, honest, returned, scanned, prev_last, regress, requested >>

\* ------------------------------------------------------------ the request
\* The responses the transport may hand back for request p: the one that
\* honours p, or (a bounded number of times) any page.
Responses(p) ==
    { HonestPage(upstream, p) } \cup
    (IF faults < MaxFaults THEN Pages(upstream) ELSE {})

\* Bookkeeping of a response resp to request p (history only).
Answered(p, resp) ==
    /\ params' = p
    /\ requested' = requested \cup {p.after}
    /\ faults' = IF resp = HonestPage(upstream, p) THEN faults ELSE faults + 1
    /\ honest' = (honest /\ resp = HonestPage(upstream, p))
    /\ returned' = returned \cup { resp[i] : i \in 1..Len(resp) }
    /\ regress' = (regress \/ (prev_last # None /\
                     \E i \in 1..Len(resp) : RecKey(stream, resp[i]) < prev_last))
    /\ prev_last' = IF resp = << >> THEN prev_last
                    ELSE RecKey(stream, Sorted(resp, stream)[Len(resp)])

\* A loop condition that never ends the loop.
LoopAgain_always(synced, last_synced) == TRUE

\* The condition of `while records_synced != last_records_synced`.
LoopAgain(synced, last_synced) == synced # last_synced

\* Stream.sync, one turn of `while records_synced != last_records_synced`, and
\* Stream.get_records up to its loop: the request and the sorted page.
Stream_get_records ==
    /\ pc = "loop"
    /\ StreamClass(stream) \in StreamSyncClasses
    /\ LoopAgain(records_synced, last_records_synced)
    /\ last_records_synced' = records_synced
    /\ \E resp \in Responses(Stream_get_params(state, stream)) :
          /\ Answered(Stream_get_params(state, stream), resp)
          /\ page' = Sorted(resp, stream)
    /\ pc' = "page"
    /\ UNCHANGED << env, state, persisted, pending, last_bookmark_value,
                    records_synced, n, bookmark, max_updated_at, last_updated_at,
                    start_time, exit_code, raised, output, delivered, scanned >>

\* Stream.sync after a pass that yielded nothing: post_sync, normal end.
Stream_sync_end ==
    /\ pc = "loop"
    /\ StreamClass(stream) \in StreamSyncClasses
    /\ ~LoopAgain(records_synced, last_records_synced)
    /\ state' = post_sync(state, stream)
    /\ persisted' = state'
    /\ exit_code' = 0
    /\ pc' = "done"
    /\ UNCHANGED << env, page, pending, last_bookmark_value, records_synced,
                    last_records_synced, n, params, bookmark, max_updated_at,
                    last_updated_at, start_time, raised, output, delivered,
                    faults, honest, returned, scanned, prev_last, regress, requested >>

\* client.get raises: InvalidCredentials, or any other exception that the
\* backoff wrapper gave up on (PardotException, RateLimitException, ...).
request_raises ==
    /\ \/ pc = "loop" /\ StreamClass(stream) \in StreamSyncClasses
                      /\ LoopAgain(records_synced, last_records_synced)
       \/ pc = "loop" /\ StreamClass(stream) = "VisitorActivities"
       \/ pc = "request"
    /\ stream \in MainStreams
    /\ faults < MaxFaults
    /\ faults' = faults + 1
    /\ \E kind \in {"InvalidCredentials", "PardotException"} :
          IF kind = "InvalidCredentials"
          THEN ExitOnInvalidCredentials
          ELSE ExitOnException(kind)
    /\ UNCHANGED << env, page, pending, last_bookmark_value, records_synced,
                    last_records_synced, n, params, bookmark, max_updated_at,
                    last_updated_at, start_time, output, delivered, honest,
                    returned, scanned, prev_last, regress, requested >>

\* -------------------------------------------------------------- sync_page
\* update_bookmark with emit=True: write_bookmark, then singer.write_state.
Emit(st) ==
    /\ state' = st
    /\ persisted' = st

\* The generator hands rec to Stream.sync (records_synced += 1), which hands
\* it on to sync.sync.
Yield(rec) ==
    /\ pending' = rec
    /\ page' = Tail(page)
    /\ records_synced' = records_synced + 1
    /\ pc' = "yielded"

\* The page is exhausted: sync_page returns to the loop of Stream.sync.
PageDone ==
    /\ pc' = "loop"
    /\ UNCHANGED << page, pending, records_synced >>

\* Stream.sync_page, one record: check_order, update_bookmark, yield.
Stream_sync_page ==
    /\ pc = "page"
    /\ StreamClass(stream) \in {"IdReplicationStream", "UpdatedAtReplicationStream"}
    /\ IF page = << >>
       THEN /\ PageDone
            /\ UNCHANGED << state, persisted, last_bookmark_value, exit_code, raised >>
       ELSE LET current_bookmark_value == RecKey(stream, Head(page))
                chk == check_order(last_bookmark_value, current_bookmark_value)
            IN  /\ last_bookmark_value' = chk.last
                /\ IF chk.raise
                   THEN /\ ExitOnException("TapPardotUnorderedDataException")
                        /\ UNCHANGED << page, pending, records_synced >>
                   ELSE /\ Emit(write_bookmark(state, stream, ReplicationKey(stream),
                                               current_bookmark_value))
                        /\ Yield(Head(page))
                        /\ UNCHANGED << exit_code, raised >>
    /\ UNCHANGED << env, last_records_synced, n, params, bookmark, max_updated_at,
                    last_updated_at, start_time, output, delivered, faults,
                    honest, returned, scanned, prev_last, regress, requested >>

\* A Visitors.sync_page that ends the page at an out-of-order record.
OutOfOrderVisitor_break ==
    /\ page' = << >>
    /\ UNCHANGED << state, persisted, pending, records_synced, pc >>

\* Visitors.sync_page at an out-of-order record: the warning and `continue`.
OutOfOrderVisitor ==
    /\ page' = Tail(page)
    /\ UNCHANGED << state, persisted, pending, records_synced, pc >>

\* Visitors.sync_page, one record: an out-of-order record is skipped.
Visitors_sync_page ==
    /\ pc = "page"
    /\ StreamClass(stream) = "Visitors"
    /\ IF page = << >>
       THEN /\ PageDone
            /\ UNCHANGED << state, persisted, last_bookmark_value >>
       ELSE LET current_bookmark_value == RecKey(stream, Head(page))
                last == IF last_bookmark_value = None
                        THEN current_bookmark_value
                        ELSE last_bookmark_value
            IN  IF current_bookmark_value < last
                THEN /\ last_bookmark_value' = last
                     /\ OutOfOrderVisitor
                ELSE /\ last_bookmark_value' = current_bookmark_value
                     /\ Emit(write_bookmark(state, stream, ReplicationKey(stream),
                                            current_bookmark_value))
                     /\ Yield(Head(page))
    /\ UNCHANGED << env, last_records_synced, n, params, bookmark, max_updated_at,
                    last_updated_at, start_time, exit_code, raised, output,
                    delivered, faults, honest, returned, scanned, prev_last, regress,
                    requested >>

\* A watermark filter that lets through a record updated exactly at the
\* watermark.
NotUpdatedSince_strict(rec, watermark) == watermark # None /\ rec.ts < watermark

\* The watermark filter of NoUpdatedAtSortingStream.sync_page.
NotUpdatedSince(rec, watermark) == watermark # None /\ rec.ts <= watermark

\* NoUpdatedAtSortingStream.sync_page, one record.
NoUpdatedAtSortingStream_sync_page ==
    /\ pc = "page"
    /\ StreamClass(stream) = "NoUpdatedAtSortingStream"
    /\ IF page = << >>
       THEN /\ PageDone
            /\ UNCHANGED << state, persisted, last_bookmark_value, exit_code,
                            raised, max_updated_at, scanned >>
       ELSE LET rec == Head(page)
                chk == check_order(last_bookmark_value, rec.id)
            IN  IF NotUpdatedSince(rec, last_updated_at)
                THEN /\ page' = Tail(page)
                     /\ scanned' = scanned \cup {rec}
                     /\ UNCHANGED << state, persisted, last_bookmark_value, exit_code,
                                     raised, max_updated_at, pending,
                                     records_synced, pc >>
                ELSE /\ last_bookmark_value' = chk.last
                     /\ IF chk.raise
                        THEN /\ ExitOnException("TapPardotUnorderedDataException")
                             /\ UNCHANGED << page, pending, records_synced,
                                             max_updated_at, scanned >>
                        ELSE /\ max_updated_at' = Max(max_updated_at, rec.ts)
                             /\ Emit(write_bookmark(state, stream, "id", rec.id))
                             /\ Yield(rec)
                             /\ scanned' = scanned \cup {rec}
                             /\ UNCHANGED << exit_code, raised >>
    /\ UNCHANGED << env, last_records_synced, n, params, bookmark, last_updated_at,
                    start_time, output, delivered, faults, honest, returned,
                    prev_last, regress, requested >>

\* UpdatedAtSortByIdReplicationStream.sync_page, one record.
UpdatedAtSortByIdReplicationStream_sync_page ==
    /\ pc = "page"
    /\ StreamClass(stream) = "UpdatedAtSortByIdReplicationStream"
    /\ IF page = << >>
       THEN /\ PageDone
            /\ UNCHANGED << state, persisted, last_bookmark_value, exit_code, raised >>
       ELSE LET current_id == Head(page).id
                chk == check_order(last_bookmark_value, current_id)
            IN  /\ last_bookmark_value' = chk.last
                /\ IF chk.raise
                   THEN /\ ExitOnException("TapPardotUnorderedDataException")
                        /\ UNCHANGED << page, pending, records_synced >>
                   ELSE /\ Emit(write_bookmark(state, stream, "id", current_id))
                        /\ Yield(Head(page))
                        /\ UNCHANGED << exit_code, raised >>
    /\ UNCHANGED << env, last_records_synced, n, params, bookmark, max_updated_at,
                    last_updated_at, start_time, output, delivered, faults,
                    honest, returned, scanned, prev_last, regress, requested >>

\* sync.sync: singer.write_record(stream_id, rec) for the yielded record.
write_record ==
    /\ pc = "yielded"
    /\ output' = Append(output, pending)
    /\ delivered' = delivered \cup {pending}
    /\ pc' = IF StreamClass(stream) = "VisitorActivities" THEN "after_yield"
             ELSE "page"
    /\ UNCHANGED << env, state, persisted, page, pending, last_bookmark_value,
                    records_synced, last_records_synced, n, params, bookmark,
                    max_updated_at, last_updated_at, start_time, exit_code,
                    raised, faults, honest, returned, scanned, prev_last, regress,
                    requested >>

\* ------------------------------------------------------ VisitorActivities
\* VisitorActivities.sync, one turn of `while True` up to the page: n = 0 and
\* the request for the 7-day window that starts at the bookmark.
VisitorActivities_get_records ==
    /\ pc = "loop"
    /\ StreamClass(stream) = "VisitorActivities"
    /\ n' = 0
    /\ \E resp \in Responses(Stream_get_params(state, stream)) :
          /\ Answered(Stream_get_params(state, stream), resp)
          /\ page' = Sorted(resp, stream)
    /\ pc' = "page"
    /\ UNCHANGED << env, state, persisted, pending, last_bookmark_value,
                    records_synced, last_records_synced, bookmark,
                    max_updated_at, last_updated_at, start_time, exit_code,
                    raised, output, delivered, scanned >>

\* VisitorActivities.sync_page up to its yield: the record goes out first.
VisitorActivities_sync_page ==
    /\ pc = "page"
    /\ StreamClass(stream) = "VisitorActivities"
    /\ IF page = << >>
       THEN /\ pc' = "pass_end"
            /\ UNCHANGED << page, pending, n >>
       ELSE /\ pending' = Head(page)
            /\ page' = Tail(page)
            /\ n' = n + 1
            /\ pc' = "yielded"
    /\ UNCHANGED << env, state, persisted, last_bookmark_value, records_synced,
                    last_records_synced, params, bookmark, max_updated_at,
                    last_updated_at, start_time, exit_code, raised, output,
                    delivered, faults, honest, returned, scanned, prev_last, regress,
                    requested >>

\* VisitorActivities.sync_page after its yield: the bookmark moves only forward.
VisitorActivities_after_yield ==
    /\ pc = "after_yield"
    /\ StreamClass(stream) = "VisitorActivities"
    /\ LET current_bookmark_value == RecKey(stream, pending)
           last == IF last_bookmark_value = None
                   THEN Stream_get_bookmark(state, stream)
                   ELSE last_bookmark_value
       IN  IF current_bookmark_value > last
           THEN /\ Emit(write_bookmark(state, stream, ReplicationKey(stream),
                                       current_bookmark_value))
                /\ last_bookmark_value' = current_bookmark_value
           ELSE /\ last_bookmark_value' = last
                /\ UNCHANGED << state, persisted >>
    /\ pc' = "page"
    /\ UNCHANGED << env, page, pending, records_synced, last_records_synced, n,
                    params, bookmark, max_updated_at, last_updated_at,
                    start_time, exit_code, raised, output, delivered, faults,
                    honest, returned, scanned, prev_last, regress, requested >>

\* VisitorActivities.sync after a pass: stop on an empty window that ends
\* after now, slide past an empty window, or go round again.
VisitorActivities_sync ==
    /\ pc = "pass_end"
    /\ StreamClass(stream) = "VisitorActivities"
    /\ LET created_before == Stream_get_params(state, stream).before
       IN  IF n = 0 /\ now < created_before
           THEN /\ Emit(post_sync(state, stream))
                /\ exit_code' = 0
                /\ pc' = "done"
           ELSE /\ IF n = 0
                   THEN Emit(write_bookmark(state, stream, ReplicationKey(stream),
                                            created_before))
                   ELSE UNCHANGED << state, persisted >>
                /\ pc' = "loop"
                /\ UNCHANGED exit_code
    /\ UNCHANGED << env, page, pending, last_bookmark_value, records_synced,
                    last_records_synced, n, params, bookmark, max_updated_at,
                    last_updated_at, start_time, raised, output, delivered,
                    faults, honest, returned, scanned, prev_last, regress, requested >>

\* -------------------------------------------------------------- Prospects
\* Prospects.sync_page up to its loop: the bookmark and the parameters are
\* read once; the offset pages of the run all use this updated_after.
Prospects_sync_page_begin ==
    /\ pc = "loop"
    /\ StreamClass(stream) = "Prospects"
    /\ bookmark' = Stream_get_bookmark(state, stream)
    /\ params' = [Stream_get_params(state, stream) EXCEPT !.offset = 0]
    /\ pc' = "request"
    /\ UNCHANGED << env, state, persisted, page, pending, last_bookmark_value,
                    records_synced, last_records_synced, n, max_updated_at,
                    last_updated_at, start_time, exit_code, raised, output,
                    delivered, faults, honest, returned, scanned, prev_last, regress,
                    requested >>

\* Prospects.sync_page, one turn of `while True` up to the records: an empty
\* response ends sync_page, and Prospects.sync runs post_sync.
Prospects_request ==
    /\ pc = "request"
    /\ StreamClass(stream) = "Prospects"
    /\ \E resp \in Responses(params) :
          /\ Answered(params, resp)
          /\ page' = Sorted(resp, stream)
          /\ IF resp = << >>
             THEN /\ Emit(post_sync(state, stream))
                  /\ exit_code' = 0
                  /\ pc' = "done"
             ELSE /\ pc' = "page"
                  /\ UNCHANGED << state, persisted, exit_code >>
    /\ UNCHANGED << env, pending, last_bookmark_value, records_synced,
                    last_records_synced, n, bookmark, max_updated_at,
                    last_updated_at, start_time, raised, output, delivered,
                    scanned >>

\* A page bookmark that is the last record's own timestamp.
PageBookmark_exact(last) == last

\* The bookmark Prospects.sync_page writes after a page whose last record
\* was updated at last: one second earlier.
PageBookmark(last) == last - ONE_SECOND

\* Prospects.sync_page, one record of the page, or the end of the page: the
\* bookmark is written once per page, one second before its last record.
Prospects_sync_page ==
    /\ pc = "page"
    /\ StreamClass(stream) = "Prospects"
    /\ IF page # << >>
       THEN /\ bookmark' = RecKey(stream, Head(page))
            /\ pending' = Head(page)
            /\ page' = Tail(page)
            /\ pc' = "yielded"
            /\ UNCHANGED << state, persisted, params >>
       ELSE /\ params' = [params EXCEPT !.offset = @ + PageSize]
            /\ bookmark' = PageBookmark(bookmark)
            /\ Emit(write_bookmark(state, stream, ReplicationKey(stream),
                                   PageBookmark(bookmark)))
            /\ pc' = "request"
            /\ UNCHANGED << page, pending >>
    /\ UNCHANGED << env, last_bookmark_value, records_synced, last_records_synced,
                    n, max_updated_at, last_updated_at, start_time, exit_code,
                    raised, output, delivered, faults, honest, returned, scanned,
                    prev_last, regress, requested >>

\* ---------------------------------------------------------------- restart
\* The process ends (killed at any point, or after its exit) and the tap is
\* started again with the last state that was written.
Ended == pc \in {"done", "exited"}

Restart ==
    /\ pc # "pre_sync"
    /\ runs < MaxRuns
    /\ Ended \/ kills < MaxKills
    /\ runs' = runs + 1
    /\ now' = now + 1
    /\ state' = persisted
    /\ pc' = "pre_sync"
    /\ page' = << >>
    /\ pending' = NoRec
    /\ last_bookmark_value' = None
    /\ records_synced' = 0
    /\ last_records_synced' = -1
    /\ n' = 0
    /\ params' = NoParams
    /\ bookmark' = None
    /\ max_updated_at' = InitWatermark(persisted, stream)
    /\ last_updated_at' = InitWatermark(persisted, stream)
    /\ start_time' = None
    /\ exit_code' = None
    /\ raised' = "none"
    /\ output' = << >>
    /\ state0' = persisted
    /\ prev_pc' = pc
    /\ kills' = IF Ended THEN kills ELSE kills + 1
    /\ returned' = {}
    /\ scanned' = {}
    /\ prev_last' = None
    /\ regress' = FALSE
    /\ requested' = {}
    /\ parent_page' = << >>
    /\ parent_ids' = << >>
    /\ parent_last_bookmark_value' = None
    /\ parent_records_synced' = 0
    /\ parent_last_records_synced' = -1
    /\ UNCHANGED << stream, upstream, parents, persisted, delivered, faults,
                    honest, b_first, main_vars >>

Next ==
    \/ pre_sync
    \/ Stream_get_records
    \/ Stream_sync_end
    \/ request_raises
    \/ Stream_sync_page
    \/ Visitors_sync_page
    \/ NoUpdatedAtSortingStream_sync_page
    \/ UpdatedAtSortByIdReplicationStream_sync_page
    \/ write_record
    \/ VisitorActivities_get_records
    \/ VisitorActivities_sync_page
    \/ VisitorActivities_after_yield
    \/ VisitorActivities_sync
    \/ Prospects_sync_page_begin
    \/ Prospects_request
    \/ Prospects_sync_page
    \/ Restart

Spec == InitMain /\ [][Next]_vars

Range(seq) == { seq[i] : i \in 1..Len(seq) }

UnorderedError == "TapPardotUnorderedDataException"

\* ============================================================ child runs
ChildStreams == { "visits", "list_memberships" }

\* ChildStream.parent_class
Parent(s) == IF s = "visits" THEN "visitors" ELSE "lists"

\* The parent's get_bookmark, run against the snapshot dict of child s: the
\* snapshot's updated_at for the parent, else config["start_date"].
parent_get_bookmark(st, s) ==
    IF Falsy("parent_bookmark", st[s]["parent_bookmark"])
    THEN StartDate
    ELSE st[s]["parent_bookmark"]

\* A parent cursor built on the run's state instead of the snapshot: its
\* writes land in the parent's own top-level bookmark.
parent_update_bookmark_live(st, s, v) ==
    write_bookmark(st, Parent(s), "updated_at", v)

\* The parent's update_bookmark (emit=False): write_bookmark into the dict the
\* parent was given as its state, the snapshot stored under the child's
\* parent_bookmark key; nothing is written out.
parent_update_bookmark(st, s, v) == write_bookmark(st, s, "parent_bookmark", v)

\* The parent's get_params (Visitors.get_params, UpdatedAtReplicationStream.get_params).
parent_get_params(st, s) ==
    [NoParams EXCEPT !.after = parent_get_bookmark(st, s), !.sort_by = "ts"]

\* The child endpoint's answer for the parent ids in ids: the records of
\* those parents that pass the filters, by id, one page from the offset.
ChildMatching(data, ids, p) == { r \in data : r.pid \in ids /\ Matches(r, p) }

ChildHonestPage(data, ids, p) ==
    LET off == IF p.offset = None THEN 0 ELSE p.offset
    IN  Take(Drop(Ordered(ChildMatching(data, ids, p), "id"), off), PageSize)

NonDecreasing(f) == \A i \in 1..NumRecords - 1 : f[i] <= f[i + 1]

ParentDatasets ==
    { { [id |-> i, ts |-> f[i]] : i \in 1..NumRecords } :
        f \in { g \in [1..NumRecords -> (StartDate + 1)..(StartDate + NumRecords)] :
                    NonDecreasing(g) /\ g[1] = StartDate + 1 } }

ChildDatasets ==
    { { [id |-> i, ts |-> t[i], pid |-> q[i]] : i \in 1..NumRecords } :
        t \in [1..NumRecords -> {StartDate, MaxTs}],
        q \in { g \in [1..NumRecords -> 1..NumRecords] : NonDecreasing(g) } }

ChildNows(s) ==
    IF s = "list_memberships"
    THEN { MaxTs + 1, StartDate + WINDOW_DAYS }
    ELSE { MaxTs + 1 }

InitChild ==
    /\ InitClient
    /\ stream \in ChildStreams
    /\ parents \in ParentDatasets
    /\ upstream \in ChildDatasets
    /\ now \in ChildNows(stream)
    /\ state = write_bookmark(EmptyState({stream, Parent(stream)}),
                              Parent(stream), "updated_at", StartDate + 1)
    /\ persisted = state
    /\ pc = "pre_sync"
    /\ page = << >>
    /\ pending = NoRec
    /\ last_bookmark_value = None
    /\ records_synced = 0
    /\ last_records_synced = -1
    /\ n = 0
    /\ params = NoParams
    /\ bookmark = None
    /\ max_updated_at = InitWatermark(state, stream)
    /\ last_updated_at = InitWatermark(state, stream)
    /\ start_time = None
    /\ exit_code = None
    /\ raised = "none"
    /\ output = << >>
    /\ delivered = {}
    /\ runs = 1
    /\ faults = 0
    /\ honest = TRUE
    /\ b_first = None
    /\ state0 = state
    /\ prev_pc = "none"
    /\ kills = 0
    /\ returned = {}
    /\ scanned = {}
    /\ prev_last = None
    /\ regress = FALSE
    /\ requested = {}
    /\ parent_page = << >>
    /\ parent_ids = << >>
    /\ parent_last_bookmark_value = None
    /\ parent_records_synced = 0
    /\ parent_last_records_synced = -1

\* What the steps of a child run leave alone besides the run's environment.
child_history ==
    << last_bookmark_value, n, bookmark, last_updated_at, start_time, faults,
       honest, returned, scanned, prev_last, regress >>

\* A new snapshot that copies the parent's own bookmark.
NewSnapshot_of_parent(st, s) == Stream_get_bookmark(st, Parent(s))

\* The snapshot pre_sync creates when none is stored: for visits the parent's
\* updated_at set to the child's own updated_at bookmark, else {}.
NewSnapshot(st, s) ==
    IF StreamClass(s) = "Visits"
    THEN ComplexBookmarkStream_get_bookmark(st, s, "updated_at")
    ELSE 0

\* ChildStream.pre_sync / Visits.pre_sync: read the stored snapshot or create
\* and persist one.
ChildStream_pre_sync ==
    /\ pc = "pre_sync"
    /\ stream \in ChildStreams
    /\ IF ComplexBookmarkStream_get_bookmark(state, stream, "parent_bookmark") = None
       THEN Emit(write_bookmark(state, stream, "parent_bookmark",
                                NewSnapshot(state, stream)))
       ELSE UNCHANGED << state, persisted >>
    /\ pc' = "parent"
    /\ UNCHANGED << run_env, parent_vars, child_history, page, pending,
                    records_synced, last_records_synced, params, max_updated_at,
                    exit_code, raised, output, delivered, requested >>

\* Visitors.sync_page run to its end over a sorted page: the records it
\* yields and the last value it accepted.
RECURSIVE VisitorsPass(_, _)
VisitorsPass(records, last) ==
    IF records = << >> THEN [yielded |-> << >>, last |-> last]
    ELSE LET v == Head(records).ts
             l == IF last = None THEN v ELSE last
         IN  IF v < l
             THEN VisitorsPass(Tail(records), l)
             ELSE LET rest == VisitorsPass(Tail(records), v)
                  IN  [yielded |-> << Head(records) >> \o rest.yielded,
                       last |-> rest.last]

\* An end of ChildStream.sync that persists the state without post_sync.
ChildDone_without_hook ==
    /\ Emit(state)
    /\ exit_code' = 0
    /\ pc' = "done"

\* The end of ChildStream.sync: the parent cursor gave no further ids.
ChildDone ==
    /\ Emit(post_sync(state, stream))
    /\ exit_code' = 0
    /\ pc' = "done"

\* ChildStream.get_parent_ids, one turn: parent.sync_page() is consumed whole,
\* every record it yields moving the snapshot's bookmark; a non-empty batch of
\* ids goes to ChildStream.sync, which starts its loop for the batch.
ChildStream_get_parent_ids ==
    /\ pc = "parent"
    /\ StreamClass(stream) = "Visits"
    /\ LET resp == HonestPage(parents, parent_get_params(state, stream))
           pass == VisitorsPass(Sorted(resp, Parent(stream)),
                                parent_last_bookmark_value)
       IN  /\ parent_last_bookmark_value' = pass.last
           /\ parent_ids' = [i \in 1..Len(pass.yielded) |-> pass.yielded[i].id]
           /\ IF pass.yielded # << >>
              THEN /\ state' = parent_update_bookmark(state, stream, pass.last)
                   /\ records_synced' = 0
                   /\ last_records_synced' = -1
                   /\ pc' = "loop"
                   /\ UNCHANGED << persisted, exit_code >>
              ELSE /\ ChildDone
                   /\ UNCHANGED << records_synced, last_records_synced >>
    /\ UNCHANGED << run_env, child_history, parent_page, parent_records_synced,
                    parent_last_records_synced, page, pending, params,
                    max_updated_at, raised, output, delivered, requested >>

\* ChildStream.sync, one turn of the batch's loop, and ChildStream.get_records:
\* the request at the stored offset, then the offset bookmark moves on.
ChildStream_get_records ==
    /\ pc = "loop"
    /\ StreamClass(stream) = "Visits"
    /\ records_synced # last_records_synced
    /\ last_records_synced' = records_synced
    /\ LET p == [NoParams EXCEPT
                   !.offset = ComplexBookmarkStream_get_bookmark(state, stream, "offset"),
                   !.sort_by = "id"]
       IN  /\ params' = p
           /\ page' = ChildHonestPage(upstream, Range(parent_ids), p)
           /\ Emit(write_bookmark(state, stream, "offset", p.offset + PageSize))
    /\ pc' = "page"
    /\ UNCHANGED << run_env, parent_vars, child_history, pending, records_synced,
                    max_updated_at, exit_code, raised, output, delivered,
                    requested >>

\* Visits.sync_page, one record.
Visits_sync_page ==
    /\ pc = "page"
    /\ StreamClass(stream) = "Visits"
    /\ IF page = << >>
       THEN /\ PageDone
            /\ UNCHANGED max_updated_at
       ELSE IF Head(page).ts <= last_updated_at
            THEN /\ page' = Tail(page)
                 /\ UNCHANGED << pending, records_synced, pc, max_updated_at >>
            ELSE /\ max_updated_at' = Max(max_updated_at, Head(page).ts)
                 /\ Yield(Head(page))
    /\ UNCHANGED << run_env, parent_vars, child_history, state, persisted,
                    last_records_synced, params, exit_code, raised, output,
                    delivered, requested >>

\* ChildStream.sync after the batch's loop: clear_bookmark("offset"); then
\* get_parent_ids resumes and persists the snapshot.
ChildStream_batch_end ==
    /\ pc = "loop"
    /\ stream \in ChildStreams
    /\ records_synced = last_records_synced
    /\ Emit(clear_bookmark(state, stream, "offset"))
    /\ pc' = IF StreamClass(stream) = "Visits" THEN "parent" ELSE "parent_page"
    /\ UNCHANGED << run_env, parent_vars, child_history, page, pending,
                    records_synced, last_records_synced, params, max_updated_at,
                    exit_code, raised, output, delivered, requested >>

\* An is_after that is also true at the target itself.
is_after_or_at(dt, target) == dt >= target

\* is_after(dt_string, target_dt)
is_after(dt, target) == dt > target

\* add_timedelta(dt_string, timedelta(days=7))
add_timedelta(dt) == dt + WINDOW_DAYS

\* ListMemberships.get_params
ListMemberships_get_params(st, s) ==
    LET updated_after == ComplexBookmarkStream_get_bookmark(st, s, "updated_at")
    IN  [NoParams EXCEPT !.after = updated_after,
                         !.before = add_timedelta(updated_after),
                         !.id_greater_than = ComplexBookmarkStream_get_bookmark(st, s, "id"),
                         !.sort_by = "id"]

\* ListMemberships.get_parent_ids, one turn of its loop: the parent's
\* get_records for the next page, or the end of the run when the last pass
\* over a page yielded nothing.
ListMemberships_get_parent_ids ==
    /\ pc = "parent"
    /\ StreamClass(stream) = "ListMemberships"
    /\ IF parent_records_synced # parent_last_records_synced
       THEN /\ parent_last_records_synced' = parent_records_synced
            /\ parent_page' = Sorted(HonestPage(parents, parent_get_params(state, stream)),
                                     Parent(stream))
            /\ pc' = "parent_page"
            /\ UNCHANGED << state, persisted, exit_code >>
       ELSE /\ ChildDone
            /\ UNCHANGED << parent_last_records_synced, parent_page >>
    /\ UNCHANGED << run_env, child_history, parent_ids, parent_last_bookmark_value,
                    parent_records_synced, page, pending, records_synced,
                    last_records_synced, params, max_updated_at, raised, output,
                    delivered, requested >>

\* The parent's Stream.sync_page, one record: check_order, the bookmark write
\* into the snapshot, and the id handed to ChildStream.sync, which starts its
\* loop for that parent.  ChildStream.sync has no exception handler: an
\* out-of-order parent record ends the process with the state as persisted.
ListMemberships_parent_sync_page ==
    /\ pc = "parent_page"
    /\ StreamClass(stream) = "ListMemberships"
    /\ IF parent_page = << >>
       THEN /\ pc' = "parent"
            /\ UNCHANGED << state, parent_page, parent_ids, parent_last_bookmark_value,
                            parent_records_synced, records_synced,
                            last_records_synced, exit_code, raised >>
       ELSE LET rec == Head(parent_page)
                chk == check_order(parent_last_bookmark_value, rec.ts)
            IN  IF chk.raise
                THEN /\ raised' = UnorderedError
                     /\ exit_code' = 1
                     /\ pc' = "exited"
                     /\ UNCHANGED << state, parent_page, parent_ids,
                                     parent_last_bookmark_value, parent_records_synced,
                                     records_synced, last_records_synced >>
                ELSE /\ parent_last_bookmark_value' = chk.last
                     /\ state' = parent_update_bookmark(state, stream, rec.ts)
                     /\ parent_page' = Tail(parent_page)
                     /\ parent_records_synced' = parent_records_synced + 1
                     /\ parent_ids' = << rec.id >>
                     /\ records_synced' = 0
                     /\ last_records_synced' = -1
                     /\ pc' = "loop"
                     /\ UNCHANGED << exit_code, raised >>
    /\ UNCHANGED << run_env, child_history, parent_last_records_synced, persisted,
                    page, pending, params, max_updated_at, output, delivered,
                    requested >>

\* ChildStream.sync, one turn of the loop for a parent id: sync_page is
\* called and ListMemberships.get_records builds its params.
ListMemberships_sync_page_begin ==
    /\ pc = "loop"
    /\ StreamClass(stream) = "ListMemberships"
    /\ records_synced # last_records_synced
    /\ last_records_synced' = records_synced
    /\ params' = ListMemberships_get_params(state, stream)
    /\ pc' = "window"
    /\ UNCHANGED << run_env, parent_vars, child_history, state, persisted, page,
                    pending, records_synced, max_updated_at, exit_code, raised,
                    output, delivered, requested >>

\* ListMemberships.get_records, one turn of `while True`: return once the
\* window starts after now, else request the window and either page on by
\* offset or slide the window by seven days.
ListMemberships_get_records ==
    /\ pc = "window"
    /\ StreamClass(stream) = "ListMemberships"
    /\ IF is_after(params.after, now)
       THEN /\ pc' = "loop"
            /\ UNCHANGED << params, page, requested >>
       ELSE LET records == ChildHonestPage(upstream, Range(parent_ids), params)
                total_results == Cardinality(ChildMatching(upstream, Range(parent_ids), params))
                offset == IF params.offset = None THEN 0 ELSE params.offset
            IN  /\ requested' = requested \cup { params.after }
                /\ page' = records
                /\ params' =
                      IF total_results > offset /\ Len(records) >= PageSize
                      THEN [params EXCEPT !.offset = offset + PageSize]
                      ELSE [params EXCEPT !.after = params.before,
                                          !.before = add_timedelta(params.before),
                                          !.offset = None]
                /\ pc' = "page"
    /\ UNCHANGED << run_env, parent_vars, child_history, state, persisted, pending,
                    records_synced, last_records_synced, max_updated_at, exit_code,
                    raised, output, delivered >>

\* ListMemberships.sync_page, one record of the window's page.
ListMemberships_sync_page ==
    /\ pc = "page"
    /\ StreamClass(stream) = "ListMemberships"
    /\ IF page = << >>
       THEN /\ pc' = "window"
            /\ UNCHANGED << state, persisted, page, pending, records_synced,
                            max_updated_at >>
       ELSE IF Head(page).ts <= last_updated_at
            THEN /\ page' = Tail(page)
                 /\ UNCHANGED << state, persisted, pending, records_synced, pc,
                                 max_updated_at >>
            ELSE /\ max_updated_at' = Max(max_updated_at, Head(page).ts)
                 /\ Emit(write_bookmark(state, stream, "id", Head(page).id))
                 /\ Yield(Head(page))
    /\ UNCHANGED << run_env, parent_vars, child_history, last_records_synced,
                    params, exit_code, raised, output, delivered, requested >>

\* client.post raises inside a child run: ChildStream.sync has no handler, so
\* the exception leaves main() and the process ends as it stands.
ChildStream_request_raises ==
    /\ stream \in ChildStreams
    /\ pc \in {"parent"}
         \cup (IF records_synced # last_records_synced /\ StreamClass(stream) = "Visits"
               THEN {"loop"} ELSE {})
         \cup (IF ~is_after(params.after, now) THEN {"window"} ELSE {})
    /\ faults < MaxFaults
    /\ faults' = faults + 1
    /\ \E kind \in {"InvalidCredentials", "PardotException"} : raised' = kind
    /\ exit_code' = 1
    /\ pc' = "exited"
    /\ UNCHANGED << run_env, parent_vars, state, persisted, page, pending,
                    last_bookmark_value, records_synced, last_records_synced, n,
                    params, bookmark, max_updated_at, last_updated_at, start_time,
                    output, delivered, honest, returned, scanned, prev_last,
                    regress, requested >>

NextChild ==
    \/ ChildStream_pre_sync
    \/ ChildStream_get_parent_ids
    \/ ChildStream_get_records
    \/ Visits_sync_page
    \/ ChildStream_batch_end
    \/ ListMemberships_get_parent_ids
    \/ ListMemberships_parent_sync_page
    \/ ListMemberships_sync_page_begin
    \/ ListMemberships_get_records
    \/ ListMemberships_sync_page
    \/ ChildStream_request_raises
    \/ write_record
    \/ Restart

SpecChild == InitChild /\ [][NextChild]_vars

\* ------------------------------------------------- the windowed entities
WindowedStreams == { "visitor_activities", "list_memberships" }

InitWindow ==
    \/ InitMain /\ stream = "visitor_activities"
    \/ InitChild /\ stream = "list_memberships"

NextWindow ==
    \/ pre_sync
    \/ VisitorActivities_get_records
    \/ VisitorActivities_sync_page
    \/ VisitorActivities_after_yield
    \/ VisitorActivities_sync
    \/ request_raises
    \/ ChildStream_pre_sync
    \/ ListMemberships_get_parent_ids
    \/ ListMemberships_parent_sync_page
    \/ ListMemberships_sync_page_begin
    \/ ListMemberships_get_records
    \/ ListMemberships_sync_page
    \/ ChildStream_batch_end
    \/ ChildStream_request_raises
    \/ write_record
    \/ Restart

SpecWindow == InitWindow /\ [][NextWindow]_vars

\* ------------------------------------- visitor_activities taken alone
\* One process of visitor_activities, with an upstream that may ignore the
\* window of more than one request.
VisitorActivities_get_records_any ==
    /\ pc = "loop"
    /\ StreamClass(stream) = "VisitorActivities"
    /\ n' = 0
    /\ \E resp \in { HonestPage(upstream, Stream_get_params(state, stream)) }
                      \cup (IF faults < MaxWindowFaults THEN Pages(upstream) ELSE {}) :
          /\ Answered(Stream_get_params(state, stream), resp)
          /\ page' = Sorted(resp, stream)
    /\ pc' = "page"
    /\ UNCHANGED << env, state, persisted, pending, last_bookmark_value,
                    records_synced, last_records_synced, bookmark,
                    max_updated_at, last_updated_at, start_time, exit_code,
                    raised, output, delivered, scanned >>

InitActivities == InitMain /\ stream = "visitor_activities"

NextActivities ==
    \/ pre_sync
    \/ VisitorActivities_get_records_any
    \/ VisitorActivities_sync_page
    \/ VisitorActivities_after_yield
    \/ VisitorActivities_sync
    \/ write_record

SpecActivities == InitActivities /\ [][NextActivities]_vars

\* One process of visitor_activities left to run: it keeps taking steps
\* until it ends.
NextActivitiesLive ==
    \/ pre_sync
    \/ VisitorActivities_get_records
    \/ VisitorActivities_sync_page
    \/ VisitorActivities_after_yield
    \/ VisitorActivities_sync
    \/ write_record

SpecActivitiesLive ==
    InitActivities /\ [][NextActivitiesLive]_vars /\ WF_vars(NextActivitiesLive)

\* ------------------------------------------ Stream.sync left to run
\* The runs of Stream.sync in which every request is honoured and the process
\* is restarted only after it has ended: the process keeps taking steps.
Stream_get_records_honoured == Stream_get_records /\ faults' = faults

Rerun == Restart /\ Ended

InitLive == InitMain /\ StreamClass(stream) \in StreamSyncClasses

SyncStep ==
    \/ pre_sync
    \/ Stream_get_records_honoured
    \/ Stream_sync_end
    \/ Stream_sync_page
    \/ Visitors_sync_page
    \/ NoUpdatedAtSortingStream_sync_page
    \/ UpdatedAtSortByIdReplicationStream_sync_page
    \/ write_record

NextLive ==
    \/ pre_sync
    \/ Stream_get_records_honoured
    \/ Stream_sync_end
    \/ Stream_sync_page
    \/ Visitors_sync_page
    \/ NoUpdatedAtSortingStream_sync_page
    \/ UpdatedAtSortByIdReplicationStream_sync_page
    \/ write_record
    \/ Rerun

SpecLive == InitLive /\ [][NextLive]_vars /\ WF_vars(SyncStep)

\* ------------------------------------------------------ every entity
\* A process of any entity of the driver list.
InitAll ==
    \/ InitMain
    \/ InitChild

NextAll ==
    \/ pre_sync
    \/ Stream_get_records
    \/ Stream_sync_end
    \/ request_raises
    \/ Stream_sync_page
    \/ Visitors_sync_page
    \/ NoUpdatedAtSortingStream_sync_page
    \/ UpdatedAtSortByIdReplicationStream_sync_page
    \/ VisitorActivities_get_records
    \/ VisitorActivities_sync_page
    \/ VisitorActivities_after_yield
    \/ VisitorActivities_sync
    \/ Prospects_sync_page_begin
    \/ Prospects_request
    \/ Prospects_sync_page
    \/ ChildStream_pre_sync
    \/ ChildStream_get_parent_ids
    \/ ChildStream_get_records
    \/ Visits_sync_page
    \/ ChildStream_batch_end
    \/ ListMemberships_get_parent_ids
    \/ ListMemberships_parent_sync_page
    \/ ListMemberships_sync_page_begin
    \/ ListMemberships_get_records
    \/ ListMemberships_sync_page
    \/ ChildStream_request_raises
    \/ write_record
    \/ Restart

SpecAll == InitAll /\ [][NextAll]_vars

\* ====================================================== the whole process
\* main(): Client(**args.config), sync_properties(client), then sync.sync,
\* which constructs and runs the entities of STREAM_OBJECTS one after the
\* other.  The run of an entity is reduced to its requests, its writes of the
\* bookmark store and its hooks; the pages are those of the sections above.

\* The variables of the run of one entity, which the process level leaves alone.
sync_vars ==
    << stream, upstream, now, pc, state, persisted, page, pending,
       last_bookmark_value, records_synced, last_records_synced, n, params,
       bookmark, max_updated_at, last_updated_at, start_time, exit_code,
       raised, output, delivered, runs, faults, honest, b_first, state0, prev_pc,
       kills, returned, scanned, prev_last, regress, requested, parents,
       parent_page, parent_ids, parent_last_bookmark_value,
       parent_records_synced, parent_last_records_synced >>

\* default_limit().
default_limit == (REQUEST_LIMIT * 8) \div 10

\* The limits _set_limit may derive: int(0.8 * max(0, maximum - used)), or the
\* default.
Limits == 0..MaxLimit \cup {default_limit}

\* A limit check that lets one more request through.
LimitReached_after(count, limit) == count > limit

\* Client._make_request: `if self.num_requests >= self.request_limit`.
LimitReached(count, limit) == count >= limit

\* Where main() is inside a call of Client._make_request.
RequestPositions ==
    { "Client", "sync_properties", "sync_properties_repeat", "request", "repeat" }

\* The version in the URL the call at main_pc is addressed to: the account
\* endpoint of _set_limit is v5, sync_properties formats client.api_version
\* into each URL, _fetch formats base_formatting.
RequestVersion ==
    CASE main_pc = "Client" -> 5
      [] main_pc \in {"sync_properties", "sync_properties_repeat"} -> api_version
      [] OTHER -> url_version

\* The entity sync.sync is running.
Current == STREAM_OBJECTS[stream_idx]

\* The entities whose sync has no try/except (ChildStream.sync).
Unhandled == { "visits", "list_memberships" }

\* The entities whose pre_sync writes the bookmark store.
WritesInPreSync == { "campaigns", "visits", "list_memberships" }

\* The process ends: sys.exit(code), or the exception reaches
\* handle_top_exception.
Exit(code, kind) ==
    /\ main_pc' = "exited"
    /\ main_exit' = code
    /\ main_raised' = kind
    /\ tries' = 0

\* An exception of kind leaves _make_request for good (it is not retried, or
\* the tries are used up) and reaches the handler of the caller.
Raise(kind) ==
    CASE main_pc = "Client" ->
            /\ Exit(1, kind)
            /\ UNCHANGED << last_writer >>
      [] main_pc \in {"sync_properties", "sync_properties_repeat"} ->
            /\ Exit(IF kind = "InvalidCredentials" THEN 5 ELSE 1, kind)
            /\ UNCHANGED << last_writer >>
      [] OTHER ->
            IF Current \in Unhandled
            THEN /\ Exit(1, kind)
                 /\ UNCHANGED << last_writer >>
            ELSE IF kind = "InvalidCredentials"
                 THEN /\ Exit(5, kind)
                      /\ UNCHANGED << last_writer >>
                 ELSE /\ Exit(1, kind)
                      /\ last_writer' = Current

\* The successor of position i in the loop over STREAM_OBJECTS that skips one.
NextStream_skipping(i) == i + 2

\* The successor of position i in the loop over STREAM_OBJECTS.
NextStream(i) == i + 1

\* _make_request finds the counter at the limit: RateLimitException, which the
\* backoff wrapper does not catch.
Client_make_request_limit ==
    /\ main_pc \in RequestPositions
    /\ LimitReached(num_requests, request_limit)
    /\ Raise("RateLimitException")
    /\ UNCHANGED << sync_vars, stream_idx, num_requests, request_limit,
                    api_version, access_token, url_version, passes, last_sent,
                    started, finished >>

\* _make_request without a token: _refresh_access_token gets one, or raises
\* InvalidCredentials, or (no token in the answer) PardotException, which the
\* backoff wrapper retries.
Client_refresh_access_token ==
    /\ main_pc \in RequestPositions
    /\ ~LimitReached(num_requests, request_limit)
    /\ access_token = None
    /\ \E answer \in {"token", "invalid_grant", "no_token"} :
          CASE answer = "token" ->
                  /\ access_token' = 1
                  /\ UNCHANGED << main_pc, main_exit, main_raised, tries,
                                  last_writer >>
            [] answer = "invalid_grant" ->
                  /\ Raise("InvalidCredentials")
                  /\ UNCHANGED access_token
            [] OTHER ->
                  /\ UNCHANGED access_token
                  /\ IF tries + 1 < MaxTries
                     THEN /\ tries' = tries + 1
                          /\ UNCHANGED << main_pc, main_exit, main_raised,
                                          last_writer >>
                     ELSE Raise("PardotException")
    /\ UNCHANGED << sync_vars, stream_idx, num_requests, request_limit,
                    api_version, url_version, passes, last_sent, started,
                    finished >>

\* What the caller of _make_request does with the response it returns: code89
\* is an answer with err_code 89, records an answer with records, empty one
\* without.
Return(answer) ==
    CASE main_pc = "Client" ->
            \* _set_limit
            /\ \E limit \in Limits : request_limit' = limit
            /\ main_pc' = "sync_properties"
            /\ UNCHANGED << api_version, passes, last_writer >>
      [] main_pc = "sync_properties" ->
            /\ IF answer = "code89"
               THEN /\ api_version' = 3
                    /\ main_pc' = "sync_properties_repeat"
               ELSE /\ main_pc' = "sync"
                    /\ UNCHANGED api_version
            /\ UNCHANGED << request_limit, passes, last_writer >>
      [] main_pc = "sync_properties_repeat" ->
            /\ main_pc' = "sync"
            /\ UNCHANGED << request_limit, api_version, passes, last_writer >>
      [] main_pc = "request" /\ answer = "code89" ->
            \* _fetch: api_version = 3, and the URL formatted again from
            \* base_formatting
            /\ api_version' = 3
            /\ main_pc' = "repeat"
            /\ UNCHANGED << request_limit, passes, last_writer >>
      [] OTHER ->
            \* the page of the entity's run: records are yielded and
            \* bookmarked and another pass follows; no records end the loop
            /\ IF answer = "records"
               THEN /\ passes' = passes + 1
                    /\ last_writer' = Current
                    /\ main_pc' = "fetch"
               ELSE /\ main_pc' = "post_sync"
                    /\ UNCHANGED << passes, last_writer >>
            /\ UNCHANGED << request_limit, api_version >>

\* The answers upstream may give to the request at main_pc: besides those
\* Return handles, error is a response that is not ok and refused one with
\* code 184 whose token refresh fails with invalid_grant.
Answers ==
    {"empty", "error", "refused"}
    \cup (IF RequestVersion = 4 THEN {"code89"} ELSE {})
    \cup (IF main_pc \in {"request", "repeat"} /\ passes < MaxPasses
          THEN {"records"} ELSE {})

\* _make_request with a token and below the limit: the counter moves, the
\* request is sent, and the response is returned if it is ok; otherwise
\* (after a token refresh for code 184) PardotException, retried by the
\* backoff wrapper while tries are left.
Client_make_request ==
    /\ main_pc \in RequestPositions
    /\ ~LimitReached(num_requests, request_limit)
    /\ access_token # None
    /\ num_requests' = num_requests + 1
    /\ last_sent' = [version |-> RequestVersion, repeat |-> main_pc = "repeat"]
    /\ \E answer \in Answers :
          CASE answer \in {"empty", "records", "code89"} ->
                  /\ Return(answer)
                  /\ tries' = 0
                  /\ UNCHANGED << main_exit, main_raised >>
            [] answer = "refused" ->
                  \* code 184, and _refresh_access_token is refused
                  /\ Raise("InvalidCredentials")
                  /\ UNCHANGED << request_limit, api_version, passes >>
            [] OTHER ->
                  /\ IF tries + 1 < MaxTries
                     THEN /\ tries' = tries + 1
                          /\ UNCHANGED << main_pc, main_exit, main_raised,
                                          last_writer >>
                     ELSE Raise("PardotException")
                  /\ UNCHANGED << request_limit, api_version, passes >>
    /\ UNCHANGED << sync_vars, stream_idx, access_token, url_version, started,
                    finished >>

\* sync.sync, the head of `for stream_id, stream_cls in STREAM_OBJECTS`: the
\* next entity is constructed, or the loop and main() end.
sync ==
    /\ main_pc = "sync"
    /\ IF stream_idx >= Len(STREAM_OBJECTS)
       THEN /\ main_pc' = "done"
            /\ main_exit' = 0
            /\ UNCHANGED << stream_idx, started, passes >>
       ELSE /\ stream_idx' = NextStream(stream_idx)
            /\ started' = Append(started, STREAM_OBJECTS[NextStream(stream_idx)])
            /\ passes' = 0
            /\ main_pc' = "pre_sync"
            /\ UNCHANGED main_exit
    /\ UNCHANGED << sync_vars, num_requests, request_limit, api_version,
                    access_token, tries, url_version, last_sent, finished,
                    last_writer, main_raised >>

\* The entity's pre_sync.
Entity_pre_sync ==
    /\ main_pc = "pre_sync"
    /\ last_writer' = IF Current \in WritesInPreSync THEN Current ELSE last_writer
    /\ main_pc' = "fetch"
    /\ UNCHANGED << sync_vars, stream_idx, num_requests, request_limit,
                    api_version, access_token, tries, url_version, passes,
                    last_sent, started, finished, main_exit, main_raised >>

\* Client._fetch up to its first request: base_formatting and the URL.
Client_fetch ==
    /\ main_pc = "fetch"
    /\ url_version' = api_version
    /\ main_pc' = "request"
    /\ UNCHANGED << sync_vars, stream_idx, num_requests, request_limit,
                    api_version, access_token, tries, passes, last_sent,
                    started, finished, last_writer, main_exit, main_raised >>

\* The entity's post_sync at the end of its sync: the state is written, and
\* the loop of sync.sync goes on.
Entity_post_sync ==
    /\ main_pc = "post_sync"
    /\ last_writer' = Current
    /\ finished' = finished \cup {Current}
    /\ main_pc' = "sync"
    /\ UNCHANGED << sync_vars, stream_idx, num_requests, request_limit,
                    api_version, access_token, tries, url_version, passes,
                    last_sent, started, main_exit, main_raised >>

\* The state the section starts from: the run-level variables at rest.
InitProcess ==
    /\ InitMain
    /\ stream = STREAM_OBJECTS[1]
    /\ upstream = { [id |-> i, ts |-> MaxTs] : i \in 1..NumRecords }
    /\ state[stream][DurableKey(stream)] = None
    /\ now = MaxTs + 1

NextProcess ==
    \/ Client_make_request_limit
    \/ Client_refresh_access_token
    \/ Client_make_request
    \/ sync
    \/ Entity_pre_sync
    \/ Client_fetch
    \/ Entity_post_sync

SpecProcess == InitProcess /\ [][NextProcess]_vars

\* ================================================================= claims
\* The records this run has handed to sync.sync.
Emitted == Range(output) \cup (IF pc = "yielded" THEN {pending} ELSE {})

\* The value the run's first request filters by.
RunStartBookmark ==
    IF StreamClass(stream) \in {"NoUpdatedAtSortingStream",
                                "UpdatedAtSortByIdReplicationStream"}
    THEN ComplexBookmarkStream_get_bookmark(state0, stream, "id")
    ELSE Stream_get_bookmark(state0, stream)

PlainCursorClasses == {"IdReplicationStream", "UpdatedAtReplicationStream"}

\* C1: for the entities driven by Stream.sync_page, whenever the process may be
\* terminated, every upstream record whose ordering key lies between the
\* bookmark the first run started from and the persisted bookmark has already
\* been written to the output (so that a resumed run misses none).
C1_BookmarkedRecordsAreWritten ==
    (StreamClass(stream) \in PlainCursorClasses /\ honest) =>
        \A r \in upstream :
            ( /\ b_first < RecKey(stream, r)
              /\ RecKey(stream, r) <= Stream_get_bookmark(persisted, stream) )
            => r \in delivered

CheckedClasses ==
    PlainCursorClasses \cup {"UpdatedAtSortByIdReplicationStream"}

C6_ScanCoversEveryId ==
    ( /\ StreamClass(stream) = "NoUpdatedAtSortingStream"
      /\ RunStartBookmark = 0
      /\ honest /\ pc = "done" ) =>
        \A r \in upstream : r.ts > last_updated_at => r \in Range(output)

\* The durable cursor of a watermark or snapshot-time entity in state st.
DurableCursor(st) ==
    ComplexBookmarkStream_get_bookmark(st, stream, DurableKey(stream))

\* C7: a watermark or snapshot-time run that ends with an error leaves the
\* durable cursor as the run found it and keeps the transient cursors the
\* run had written.
C7_ErrorKeepsCursors ==
    ( /\ StreamClass(stream) \in {"NoUpdatedAtSortingStream",
                                  "UpdatedAtSortByIdReplicationStream"}
      /\ pc = "exited" ) =>
        /\ DurableCursor(persisted) = DurableCursor(state0)
        /\ StreamClass(stream) = "UpdatedAtSortByIdReplicationStream" =>
              persisted[stream]["sync_start_time"] # None
        /\ output # << >> => persisted[stream]["id"] # None

\* C9: a run of an id, created-at or updated-at cursor entity never emits a
\* record whose ordering key is below the bookmark the run started from.
C9_NothingBelowStartBookmark ==
    StreamClass(stream) \in PlainCursorClasses
                            \cup {"Visitors", "VisitorActivities"} =>
        \A r \in Emitted : RecKey(stream, r) >= RunStartBookmark

\* C10: in a watermark-style run every record the filter has judged is emitted
\* exactly if its update time is above the watermark the run started with;
\* when the run ends normally the persisted updated_at is the greatest update
\* time emitted (the watermark if nothing was emitted) and no id cursor is
\* left in the state.
C10_WatermarkFilter ==
    StreamClass(stream) = "NoUpdatedAtSortingStream" =>
        LET w == ComplexBookmarkStream_get_bookmark(state0, stream, "updated_at")
        IN  /\ \A r \in scanned : (r \in Emitted) <=> (r.ts > w)
            /\ pc = "done" =>
                  /\ \A r \in Emitted : r.ts <= persisted[stream]["updated_at"]
                  /\ \/ persisted[stream]["updated_at"] = w /\ Emitted = {}
                     \/ \E r \in Emitted : r.ts = persisted[stream]["updated_at"]
                  /\ persisted[stream]["id"] = None
                  /\ state[stream]["id"] = None

\* C10 witness: a watermark-style run has ended normally after skipping a
\* record whose update time equals the watermark and emitting two records
\* with different update times.
C10_Witness ==
    /\ StreamClass(stream) = "NoUpdatedAtSortingStream"
    /\ pc = "done"
    /\ \E r \in scanned : r.ts = last_updated_at
    /\ \E i, j \in 1..Len(output) : output[i].ts < output[j].ts

\* C4: in a child run the parent's own top-level bookmark is never written,
\* in the run's state or in any state written out: whatever the parent cursor
\* writes lands in the child's parent_bookmark snapshot.
C4_ParentBookmarkUntouched ==
    stream \in ChildStreams =>
        /\ state[Parent(stream)] = state0[Parent(stream)]
        /\ persisted[Parent(stream)] = state0[Parent(stream)]

\* C4 witness: a child run has ended normally after the parent cursor moved
\* past a record and the child emitted one; the parent's bookmark is as found.
C4_Witness ==
    /\ stream \in ChildStreams
    /\ pc = "done"
    /\ parent_last_bookmark_value # None
    /\ output # << >>
    /\ state[Parent(stream)]["updated_at"] = StartDate + 1

\* The parent ids a run started from state st hands to the child first: the
\* snapshot as pre_sync reads or builds it, the parent's first page from it,
\* all of it for visits, its first record for list_memberships.
RederivedBatch(st) ==
    LET stored == ComplexBookmarkStream_get_bookmark(st, stream, "parent_bookmark")
        after == IF stored # None THEN stored
                 ELSE IF StreamClass(stream) = "Visits"
                      THEN ComplexBookmarkStream_get_bookmark(st, stream, "updated_at")
                      ELSE StartDate
        first == Sorted(HonestPage(parents, [NoParams EXCEPT !.after = after,
                                                             !.sort_by = "ts"]),
                        Parent(stream))
        ids == [i \in 1..Len(first) |-> first[i].id]
    IN  IF StreamClass(stream) = "Visits" THEN ids ELSE Take(ids, 1)

\* C5: while a child run is paginating a batch of parent ids, every state it
\* has written out is one from which a resumed run derives that same batch
\* again, so that a termination at that point skips none of the batch.
C5_PersistedSnapshotRederivesBatch ==
    ( /\ stream \in ChildStreams
      /\ pc \in {"loop", "page", "yielded", "window"}
      /\ parent_ids # << >> ) =>
        RederivedBatch(persisted) = parent_ids

C11_ImmediateRerunEmitsNothing ==
    ( /\ StreamClass(stream) = "NoUpdatedAtSortingStream"
      /\ prev_pc = "done"
      /\ honest ) =>
        /\ Emitted = {}
        /\ params # NoParams => params.id_greater_than = 0
        /\ ComplexBookmarkStream_get_bookmark(persisted, stream, "updated_at")
              = ComplexBookmarkStream_get_bookmark(state0, stream, "updated_at")

\* C12: in a visits run that found no offset stored, the first request for a
\* batch of parent ids uses offset 0 and every further one the offset PageSize
\* higher; the run leaves a batch only when upstream's total_results for it is
\* no more than the records returned so far, and with the offset cleared in
\* the state and in what is persisted.
C12_OffsetPagesExhaustBatch ==
    [][ ( /\ StreamClass(stream) = "Visits"
          /\ runs' = runs
          /\ state0[stream]["offset"] = None ) =>
          /\ (pc = "loop" /\ pc' = "page") =>
                params'.offset = IF last_records_synced = -1 THEN 0
                                 ELSE params.offset + PageSize
          /\ (pc = "loop" /\ pc' = "parent") =>
                /\ Cardinality(ChildMatching(upstream, Range(parent_ids), NoParams))
                      <= params.offset + PageSize
                /\ state'[stream]["offset"] = None
                /\ persisted'[stream]["offset"] = None
      ]_vars

\* A step in which an exception ends the run of the entity.
RunFails == pc # "exited" /\ pc' = "exited"

\* C13: for every entity, child entities included, a run ended by
\* an exception other than InvalidCredentials has run the entity's post_sync
\* on the state and written the result out, and the process exits with code 1
\* and takes no further step.
C13_ExceptionRunsHookThenExits ==
    [][ /\ (RunFails /\ raised' # "InvalidCredentials") =>
              /\ exit_code' = 1
              /\ state' = post_sync(state, stream)
              /\ persisted' = state'
        /\ pc = "exited" => runs' = runs + 1
      ]_vars

\* C14: a run of any entity, child entities included, that is ended by
\* InvalidCredentials exits with code 5, the state and what is persisted
\* staying as they were (no post_sync), and the process takes no further step.
C14_InvalidCredentialsExitsFive ==
    [][ /\ (RunFails /\ raised' = "InvalidCredentials") =>
              /\ exit_code' = 5
              /\ state' = state
              /\ persisted' = persisted
        /\ pc = "exited" => runs' = runs + 1
      ]_vars

\* C15: in the run of an entity whose sync_page is Stream.sync_page, for each
\* candidate value v handed to check_order: with no value recorded, v is
\* accepted and recorded; with v strictly below the recorded value the
\* out-of-order error is raised and the recorded value stays; any other v
\* (one equal to the recorded value included) is accepted and recorded.
C15_OrderingGuard ==
    [][ ( /\ StreamClass(stream) \in PlainCursorClasses
          /\ pc = "page" /\ page # << >> /\ runs' = runs ) =>
            LET v == RecKey(stream, Head(page))
            IN  IF last_bookmark_value # None /\ v < last_bookmark_value
                THEN /\ raised' = UnorderedError
                     /\ last_bookmark_value' = last_bookmark_value
                     /\ output' = output
                ELSE /\ raised' = "none"
                     /\ last_bookmark_value' = v
                     /\ pc' = "yielded"
      ]_vars

\* C15 witness: the guard accepted a first value and a value equal to it, and
\* then raised on a smaller one, the recorded value being the accepted one.
C15_Witness ==
    /\ StreamClass(stream) \in PlainCursorClasses
    /\ raised = UnorderedError /\ page # << >>
    /\ Len(output) >= 2
    /\ RecKey(stream, output[1]) = RecKey(stream, output[2])
    /\ last_bookmark_value = RecKey(stream, output[Len(output)])
    /\ RecKey(stream, Head(page)) < last_bookmark_value

\* C16: in a visitors run, a record whose updated_at is below the last value
\* accepted in the run is skipped: nothing is emitted, the state, what is
\* persisted and the last accepted value stay, no error is raised, and
\* sync_page goes on with the rest of the page; any other record is accepted,
\* bookmarked and emitted.
C16_VisitorsSkipOutOfOrder ==
    [][ ( /\ StreamClass(stream) = "Visitors"
          /\ pc = "page" /\ page # << >> /\ runs' = runs ) =>
            LET v == RecKey(stream, Head(page))
            IN  IF last_bookmark_value # None /\ v < last_bookmark_value
                THEN /\ output' = output /\ pending' = pending
                     /\ state' = state /\ persisted' = persisted
                     /\ last_bookmark_value' = last_bookmark_value
                     /\ raised' = "none" /\ exit_code' = exit_code
                     /\ pc' = "page" /\ page' = Tail(page)
                ELSE /\ pending' = Head(page) /\ pc' = "yielded"
                     /\ last_bookmark_value' = v
                     /\ persisted'[stream]["updated_at"] = v
                     /\ raised' = "none"
                     /\ page' = Tail(page)
      ]_vars

\* C16 witness: sync_page has skipped a returned record below the last
\* accepted value and is now about to emit an in-order record of the page.
C16_Witness ==
    /\ StreamClass(stream) = "Visitors"
    /\ pc = "yielded" /\ raised = "none"
    /\ last_bookmark_value = pending.ts
    /\ persisted[stream]["updated_at"] = pending.ts
    /\ \E r \in returned \ (Emitted \cup Range(page)) :
          /\ r.ts < pending.ts
          /\ output # << >> /\ r.ts < output[Len(output)].ts

\* C17: in a prospects run the state is not written while the records of a
\* page are emitted; once all of them are emitted the persisted updated_at is
\* the updated_at of the last emitted record minus one second, so that the
\* request a later run builds from it matches every record that shares the
\* last record's updated_at.
C17_ProspectsPageBookmark ==
    [][ ( /\ StreamClass(stream) = "Prospects"
          /\ pc \in {"page", "yielded"} /\ runs' = runs ) =>
            IF pc = "page" /\ page = << >>
            THEN /\ output # << >>
                 /\ persisted'[stream]["updated_at"]
                       = output[Len(output)].ts - ONE_SECOND
                 /\ \A r \in upstream :
                       r.ts = output[Len(output)].ts =>
                          Matches(r, Stream_get_params(persisted', stream))
            ELSE persisted' = persisted
      ]_vars

\* C17 witness: a prospects run that resumed from a page bookmark has emitted
\* again a record that shares the timestamp the bookmark was taken from.
C17_Witness ==
    /\ StreamClass(stream) = "Prospects"
    /\ prev_pc \in {"exited", "request"}
    /\ state0[stream]["updated_at"] \notin InitialBookmarks
    /\ honest
    /\ \E r \in Range(output) : r.ts = state0[stream]["updated_at"] + ONE_SECOND
    /\ Cardinality({ r \in upstream : r.ts = state0[stream]["updated_at"] + ONE_SECOND }) >= 2

\* The sync_start_time the run of campaigns works with: the one stored when
\* the process started, or the time of the start when none was stored.
RunSnapshot ==
    IF state0[stream]["sync_start_time"] # None
    THEN state0[stream]["sync_start_time"]
    ELSE now

\* C18: in a campaigns run, from the end of pre_sync and before any page is
\* requested until the run ends, the persisted sync_start_time is the stored
\* one if one was stored when the run started and the time of the start
\* otherwise; a run that completes has written that same value to
\* last_updated and removed sync_start_time.
C18_SnapshotTakenOnce ==
    StreamClass(stream) = "UpdatedAtSortByIdReplicationStream" =>
        /\ pc = "pre_sync" => requested = {}
        /\ pc \notin {"pre_sync", "done", "exited"} =>
              /\ start_time = RunSnapshot
              /\ persisted[stream]["sync_start_time"] = RunSnapshot
              /\ persisted[stream]["last_updated"] = state0[stream]["last_updated"]
        /\ pc = "done" =>
              /\ persisted[stream]["last_updated"] = RunSnapshot
              /\ persisted[stream]["sync_start_time"] = None

\* C18 witness: a run that found the sync_start_time of an unfinished run has
\* completed and promoted that earlier time, having emitted a record.
C18_Witness ==
    /\ StreamClass(stream) = "UpdatedAtSortByIdReplicationStream"
    /\ pc = "done"
    /\ state0[stream]["sync_start_time"] # None
    /\ state0[stream]["sync_start_time"] < now
    /\ persisted[stream]["last_updated"] = state0[stream]["sync_start_time"]
    /\ output # << >>

\* C19: across runs and whatever the upstream returns, the value stored under
\* the entity's durable ordering key (id for email_clicks, created_at for
\* visitor_activities, updated_at for the updated-at and the watermark
\* entities, last_updated for campaigns) never decreases from one write to the
\* next.
C19_DurableBookmarkNeverDecreases ==
    [][ ( /\ persisted[stream][DurableKey(stream)] # None
          /\ persisted'[stream][DurableKey(stream)] # None ) =>
            persisted'[stream][DurableKey(stream)]
               >= persisted[stream][DurableKey(stream)]
      ]_vars

\* C20: when the run of a child entity has ended because the private parent
\* cursor yielded no further identifiers, the state holds no parent_bookmark,
\* that state is the persisted one, and the post-run hook has run (the
\* transient id is removed and updated_at is the greatest value of the run).
C20_ChildEndClearsParentBookmark ==
    (stream \in ChildStreams /\ pc = "done") =>
        /\ state[stream]["parent_bookmark"] = None
        /\ persisted = state
        /\ persisted[stream]["id"] = None
        /\ persisted[stream]["updated_at"] = max_updated_at
        /\ exit_code = 0 /\ raised = "none"

\* C20 witness: a child run that started from the parent_bookmark of an
\* interrupted run has emitted a record and ended.
C20_Witness ==
    /\ stream \in ChildStreams
    /\ pc = "done"
    /\ state0[stream]["parent_bookmark"] # None
    /\ output # << >>
    /\ persisted[stream]["parent_bookmark"] = None

\* C21: in Stream.sync each pass requests one page with the parameters built
\* from the bookmarks the previous pass persisted; the run ends at the first
\* pass that emitted no record, by the post-run hook, after which the process
\* takes no further step (a run that emitted nothing included); and when
\* every request is honoured every run reaches its end.
C21_StreamSyncEndsAfterEmptyPass ==
    /\ [][ /\ ( /\ StreamClass(stream) \in StreamSyncClasses
                /\ pc = "loop" /\ runs' = runs ) =>
                  IF records_synced # last_records_synced
                  THEN /\ pc' = "page"
                       /\ params' = Stream_get_params(persisted, stream)
                       /\ Len(page') <= PageSize
                       /\ last_records_synced' = records_synced
                       /\ persisted' = persisted
                  ELSE /\ pc' = "done" /\ exit_code' = 0
                       /\ persisted' = post_sync(state, stream)
                       /\ output' = output
           /\ pc = "done" => runs' = runs + 1
         ]_vars
    /\ (pc = "pre_sync" ~> pc = "done")

\* C21 witness: a run that took several passes has ended with every upstream
\* record emitted.
C21_Witness ==
    /\ StreamClass(stream) \in StreamSyncClasses
    /\ pc = "done" /\ exit_code = 0
    /\ Len(output) = NumRecords
    /\ records_synced = NumRecords /\ last_records_synced = NumRecords

\* C22: once num_requests has reached request_limit no request is sent
\* upstream any more: the next call of _make_request raises
\* RateLimitException, which is not retried and ends the process with exit
\* code 1 in the entity it was running, no later entity being started.
C22_NoRequestBeyondLimit ==
    [][ /\ num_requests >= request_limit =>
              /\ num_requests' = num_requests
              /\ last_sent' = last_sent
              /\ access_token' = access_token
        /\ (num_requests >= request_limit /\ main_pc \in RequestPositions) =>
              /\ main_pc' = "exited"
              /\ main_raised' = "RateLimitException"
              /\ main_exit' = 1
              /\ tries' = 0
        /\ main_pc = "exited" => UNCHANGED main_vars
      ]_vars

\* C22 witness: the process was ended by RateLimitException in the run of its
\* third entity, two entities having finished below the limit.
C22_Witness ==
    /\ main_pc = "exited" /\ main_raised = "RateLimitException"
    /\ num_requests = request_limit
    /\ Len(started) = 3 /\ Cardinality(finished) = 2

\* C23: the entities are constructed in the order of STREAM_OBJECTS, each
\* only after the post_sync of every entity before it has returned; a request
\* of an entity's run is sent, and the bookmark store is written, only by the
\* entity constructed last, all others having finished.
C23_OneEntityAtATime ==
    /\ [] /\ Len(started) <= Len(STREAM_OBJECTS)
          /\ started = SubSeq(STREAM_OBJECTS, 1, Len(started))
          /\ \A i \in 1..Len(started) - 1 : started[i] \in finished
          /\ finished \subseteq Range(started)
    /\ [][ /\ (num_requests' > num_requests /\ main_pc \in {"request", "repeat"}) =>
                 /\ Current = started[Len(started)]
                 /\ Current \notin finished
                 /\ \A i \in 1..stream_idx - 1 : STREAM_OBJECTS[i] \in finished
           /\ last_writer' # last_writer =>
                 /\ last_writer' = started[Len(started)]
                 /\ last_writer \in finished \cup {"none"}
                 /\ started' = started
         ]_vars

\* C23 witness: main() has ended after the runs of all entities, every one of
\* them having sent a request and run its hook.
C23_Witness ==
    /\ main_pc = "done" /\ main_exit = 0
    /\ started = STREAM_OBJECTS
    /\ finished = StreamNames
    /\ last_writer = STREAM_OBJECTS[Len(STREAM_OBJECTS)]
    /\ num_requests >= Len(STREAM_OBJECTS) + 2

\* C29: when the response to a request of _fetch carries error code 89,
\* api_version becomes 3 and the request is repeated against the version-3
\* URL; every request _fetch sends while api_version is 3 goes to version 3.
C29_Code89RepeatsOnVersion3 ==
    [][ /\ (main_pc = "request" /\ main_pc' = "repeat") => api_version' = 3
        /\ (main_pc = "repeat" /\ num_requests' > num_requests) =>
              /\ last_sent'.repeat
              /\ last_sent'.version = 3
        /\ ( /\ main_pc \in {"request", "repeat"}
             /\ api_version = 3 /\ num_requests' > num_requests ) =>
              last_sent'.version = 3
      ]_vars

\* A step of pre_sync in a child run that finds no parent snapshot stored.
CreatesSnapshot ==
    /\ stream \in ChildStreams
    /\ pc = "pre_sync" /\ runs' = runs
    /\ state[stream]["parent_bookmark"] = None

\* C24 (as claimed): the snapshot a child run creates holds the parent's own
\* bookmark as it is at that moment, so the private parent cursor starts
\* where the parent's own bookmark stands.
C24_SnapshotCopiesParentBookmark ==
    [][ CreatesSnapshot =>
          /\ parent_get_bookmark(state', stream)
                = Stream_get_bookmark(state, Parent(stream))
          /\ persisted' = state'
      ]_vars

\* C24 (amended): the snapshot a child run creates does not hold the parent's
\* own bookmark: for list_memberships it is empty and the private parent
\* cursor starts at the start date; for visits it holds the child's own
\* updated_at bookmark (the start date if there is none) as the parent's
\* updated_at.  It is persisted at once, and the parent's own bookmark stays.
C24_Amended ==
    [][ CreatesSnapshot =>
          /\ parent_get_bookmark(state', stream)
                = IF stream = "visits"
                  THEN IF state[stream]["updated_at"] = None THEN StartDate
                       ELSE state[stream]["updated_at"]
                  ELSE StartDate
          /\ persisted' = state'
          /\ state'[Parent(stream)] = state[Parent(stream)]
      ]_vars

\* C24 witness: a later run of visits has created its snapshot from the
\* watermark the earlier run left, which is not the parent's own bookmark.
C24_Witness ==
    /\ stream = "visits"
    /\ pc = "parent" /\ output = << >>
    /\ state0[stream]["parent_bookmark"] = None
    /\ state0[stream]["updated_at"] # None
    /\ persisted[stream]["parent_bookmark"] = state0[stream]["updated_at"]
    /\ persisted[stream]["parent_bookmark"] # state[Parent(stream)]["updated_at"]

\* C25: in a list_memberships run that started without an id cursor, the
\* first request built for each parent list id has id_greater_than = 0: the
\* id cursor of one list is not carried over to the next.
C25_IdCursorPerParentList ==
    [][ ( /\ StreamClass(stream) = "ListMemberships"
          /\ state0[stream]["id"] = None
          /\ pc = "loop" /\ pc' = "window"
          /\ last_records_synced = -1 ) =>
            params'.id_greater_than = 0
      ]_vars

\* C26: in a visitor_activities run, whatever upstream returns, the persisted
\* created_at bookmark never decreases, the values written by sliding an
\* empty window forward included.
C26_CreatedAtNeverDecreases ==
    [][ ( /\ stream = "visitor_activities"
          /\ runs' = runs
          /\ persisted[stream]["created_at"] # None ) =>
            persisted'[stream]["created_at"] >= persisted[stream]["created_at"]
      ]_vars

\* C27: every iteration of the loop of VisitorActivities.sync either emits
\* records and strictly advances the bookmark over the start of its window,
\* or slides the bookmark to the end of its empty window, or halts on an
\* empty window that ends after now; and the run terminates.
C27_EveryIterationMoves ==
    /\ [][ (stream = "visitor_activities" /\ pc = "pass_end") =>
              IF n > 0
              THEN /\ pc' = "loop"
                   /\ Stream_get_bookmark(persisted', stream) > params.after
              ELSE IF now < params.before
                   THEN pc' = "done"
                   ELSE /\ pc' = "loop"
                        /\ Stream_get_bookmark(persisted', stream) = params.before
                        /\ params.before > params.after
         ]_vars
    /\ (pc = "pre_sync" ~> pc = "done")

\* C28: when the post-run hook of opportunities, users, visits or
\* list_memberships writes the updated_at watermark, at the end of a run or on
\* its way out after an exception, the value written is at least the
\* watermark the stream object read when it was created (the stored
\* updated_at, or the start date), whatever records the run saw.
C28_WatermarkNotBelowRead ==
    [][ ( /\ stream \in {"opportunities", "users", "visits", "list_memberships"}
          /\ ~Ended /\ pc' \in {"done", "exited"}
          /\ persisted' = post_sync(state, stream) )
        => persisted'[stream]["updated_at"] >=
               (IF state0[stream]["updated_at"] # None
                THEN state0[stream]["updated_at"] ELSE StartDate)
      ]_vars

\* C28 witness: a run that started from a stored watermark above the start
\* date saw no record and ended; its hook wrote the watermark it had read.
C28_Witness ==
    /\ stream \in {"opportunities", "users", "visits", "list_memberships"}
    /\ pc = "done" /\ runs > 1
    /\ output = << >>
    /\ state0[stream]["updated_at"] > StartDate
    /\ persisted[stream]["updated_at"] = state0[stream]["updated_at"]
    /\ persisted[stream]["id"] = None

====
